---- MODULE Spec2Model ----
(***************************************************************************)
(* A model of schelling.py: a Schelling-style grid that is generated once, *)
(* given a personality and a tolerance threshold per occupied cell, and    *)
(* then queried cell by cell.  main() runs its three steps in order; the   *)
(* process may run main() again, and get_agent_perspective may also be     *)
(* called directly between the steps, as a test or another caller would.   *)
(*                                                                         *)
(* Python floats are modelled as binary floating point numbers with        *)
(* round-to-nearest-even, at a mantissa width of MantissaBits instead of   *)
(* 53.  Random draws are modelled by two generator states chosen freely    *)
(* at start-up, from which each draw is computed.                          *)
(***************************************************************************)
EXTENDS Integers, Sequences, FiniteSets, TLC

VARIABLES GRID_SIZE, EMPTY_RATIO, DYNAMIC_THRESHOLDS,
          grid, AGENT_PROFILES, np_rng, py_rng, pc, nRuns, last

vars == <<GRID_SIZE, EMPTY_RATIO, DYNAMIC_THRESHOLDS,
          grid, AGENT_PROFILES, np_rng, py_rng, pc, nRuns, last>>

-----------------------------------------------------------------------------
(* Bounds of the model *)

\* Largest configured grid side (GRID_SIZE is 20 in the source).
MaxSize == 3
\* Width of a float's mantissa (53 for a Python float).
MantissaBits == 16
\* Number of values a uniform draw of the numpy generator can take.
UniformRes == 20
\* Number of start states of the two random generators.
NumSeeds == 2
\* Number of times main() runs in one process.
MaxRuns == 2

-----------------------------------------------------------------------------
(* Python floats *)

RECURSIVE Pow2(_)
Pow2(n) == IF n <= 0 THEN 1 ELSE 2 * Pow2(n - 1)

\* round-half-to-even of n / d, for n >= 0 and d > 0
RoundHalfEven(n, d) ==
    LET q == n \div d
        r == n % d
    IN  IF 2 * r < d THEN q
        ELSE IF 2 * r > d THEN q + 1
        ELSE IF q % 2 = 0 THEN q ELSE q + 1

\* the binary exponent of num / den in (0, 1]: the least e with num/den * 2^e >= 1
RECURSIVE BinExp(_, _, _)
BinExp(num, den, e) == IF num * Pow2(e) >= den THEN e ELSE BinExp(num, den, e + 1)

\* The float nearest to num / den (0 <= num <= den): the value m / 2^(e + MantissaBits - 1).
\* It is what the literal "0.3" evaluates to (num = 3, den = 10) and what the true
\* division 3 / 10 returns: both are correctly rounded.
PyFloat(num, den) ==
    IF num = 0 THEN [m |-> 0, e |-> 0]
    ELSE LET e == BinExp(num, den, 0)
         IN  [m |-> RoundHalfEven(num * Pow2(e + MantissaBits - 1), den), e |-> e]

\* a < b on floats
FloatLess(a, b) == a.m * Pow2(b.e) < b.m * Pow2(a.e)

FloatLessEq(a, b) == a.m * Pow2(b.e) <= b.m * Pow2(a.e)

\* f"{v:.2f}": the float's exact value rounded to hundredths, half to even
Format2f(a) == RoundHalfEven(a.m * 100, Pow2(a.e + MantissaBits - 1))

-----------------------------------------------------------------------------
(* Global parameters *)

THRESHOLD == PyFloat(3, 10)

PERSONALITY_OPTIONS ==
    << "very sociable, loves meeting new people, and embraces diversity",
       "shy and introverted, prefers a quiet neighborhood",
       "adventurous and curious about different cultures",
       "cautious and family-oriented, values close-knit communities",
       "artistic, enjoys creative, lively surroundings",
       "academic, values intellectual discussions with neighbors" >>

\* the dict in insertion order, which is the order .items() iterates in
PERSONALITY_THRESHOLD_MAP ==
    << [key |-> "very sociable",                value |-> PyFloat(1, 10)],
       [key |-> "shy and introverted",          value |-> PyFloat(5, 10)],
       [key |-> "adventurous",                  value |-> PyFloat(2, 10)],
       [key |-> "cautious and family-oriented", value |-> PyFloat(4, 10)],
       [key |-> "artistic",                     value |-> PyFloat(25, 100)],
       [key |-> "academic",                     value |-> PyFloat(3, 10)] >>

-----------------------------------------------------------------------------
(* Grids *)

Coords(size) == (0 .. size - 1) \X (0 .. size - 1)

NoGrid == [made |-> FALSE, size |-> 0, cells |-> <<>>]

\* one uniform draw in [0, 1), as u / UniformRes, and the generator's next state
NpDraw(rng, i) == (rng + i * 11) % UniformRes

\* np.random.choice([0, 1, 2], p = [E, (1-E)/2, (1-E)/2]) for one uniform draw u:
\* the first value whose cumulated probability exceeds u.  E is E10 / 10.
ChoiceValue(u, E10) ==
    IF 10 * u < E10 * UniformRes THEN 0
    ELSE IF 20 * u < (10 + E10) * UniformRes THEN 1
    ELSE 2

\* initialize_grid(size, empty_ratio): the grid, or the failure, and the generator's
\* state afterwards.
InitializeGrid(size, E10, rng) ==
    LET num_cells == size * size
    IN  IF E10 < 0 \/ E10 > 10
          THEN \* np.random.choice rejects p: "probabilities are not non-negative"
               [kind |-> "ValueError", grid |-> NoGrid, rng |-> rng]
        ELSE IF size < 0
          THEN \* the draws are made, then reshape(size, size) rejects the shape
               [kind |-> "ValueError", grid |-> NoGrid,
                rng |-> NpDraw(rng, num_cells)]
        ELSE [kind |-> "grid",
              grid |-> [made |-> TRUE, size |-> size,
                        cells |-> [c \in Coords(size) |->
                            ChoiceValue(NpDraw(rng, c[1] * size + c[2]), E10)]],
              rng |-> NpDraw(rng, num_cells)]

-----------------------------------------------------------------------------
(* Personalities and thresholds *)

\* key_fragment in personality
IsSubstring(k, s) ==
    \E i \in 1 .. (Len(s) - Len(k) + 1) : SubSeq(s, i, i + Len(k) - 1) = k

\* a variant that asks for the whole string instead of a fragment of it
ResolveThresholdExactMatch(personality, dynamic) ==
    LET hits == SelectSeq(PERSONALITY_THRESHOLD_MAP,
                          LAMBDA ent : ent.key = personality)
    IN  IF dynamic /\ hits # <<>> THEN hits[1].value ELSE THRESHOLD

\* the threshold of a chosen personality
ResolveThreshold(personality, dynamic) ==
    IF dynamic
      THEN LET threshold_candidates ==
                   SelectSeq(PERSONALITY_THRESHOLD_MAP,
                             LAMBDA ent : IsSubstring(ent.key, personality))
           IN  IF threshold_candidates # <<>>
                 THEN threshold_candidates[1].value
                 ELSE THRESHOLD
      ELSE THRESHOLD

Occupied(g) == {c \in Coords(g.size) : g.cells[c] # 0}

\* random.choice(PERSONALITY_OPTIONS), for the k-th draw after generator state rng
PyChoice(rng, k) == PERSONALITY_OPTIONS[((rng + k) % Len(PERSONALITY_OPTIONS)) + 1]

\* assign_personalities_and_thresholds(grid): the store afterwards.  The cells are
\* visited row by row, each occupied one draws once; entries of other keys stay.
AssignProfiles(g, store, dynamic, rng) ==
    LET Rank(c) == Cardinality({d \in Occupied(g) :
                        d[1] * g.size + d[2] < c[1] * g.size + c[2]})
    IN  [c \in (DOMAIN store) \cup Occupied(g) |->
            IF c \in Occupied(g)
              THEN [personality |-> PyChoice(rng, Rank(c)),
                    threshold   |-> ResolveThreshold(PyChoice(rng, Rank(c)), dynamic)]
              ELSE store[c]]

-----------------------------------------------------------------------------
(* Neighbourhoods *)

Offsets == << <<-1, -1>>, <<-1, 0>>, <<-1, 1>>,
              << 0, -1>>, << 0, 0>>, << 0, 1>>,
              << 1, -1>>, << 1, 0>>, << 1, 1>> >>

\* numpy's reading of an index i on an axis of length size: negative indices count
\* from the end; -1 stands for "IndexError"
NpIndex(i, size) ==
    IF 0 <= i /\ i < size THEN i
    ELSE IF -size <= i /\ i < 0 THEN i + size
    ELSE -1

\* a variant without the lower bound check, whose negative indices wrap around
NeighborCoordsWrap(size, x, y) ==
    LET In(d) == ~(d[1] = 0 /\ d[2] = 0)
                 /\ x + d[1] < size /\ y + d[2] < size
                 /\ NpIndex(x + d[1], size) >= 0 /\ NpIndex(y + d[2], size) >= 0
        kept == SelectSeq(Offsets, In)
    IN  [i \in 1 .. Len(kept) |->
            <<NpIndex(x + kept[i][1], size), NpIndex(y + kept[i][2], size)>>]

\* the cells get_neighbors(grid, x, y) reads, in the order it reads them
NeighborCoords(size, x, y) ==
    LET In(d) == ~(d[1] = 0 /\ d[2] = 0)
                 /\ 0 <= x + d[1] /\ x + d[1] < size
                 /\ 0 <= y + d[2] /\ y + d[2] < size
        kept == SelectSeq(Offsets, In)
    IN  [i \in 1 .. Len(kept) |-> <<x + kept[i][1], y + kept[i][2]>>]

\* get_neighbors(grid, x, y): the values of those cells
get_neighbors(g, x, y) ==
    LET nc == NeighborCoords(g.size, x, y)
    IN  [i \in 1 .. Len(nc) |-> g.cells[nc[i]]]

\* np.sum(neighbors == agent), np.sum(neighbors > 0)
CountEqual(neighbors, agent) == Cardinality({i \in DOMAIN neighbors : neighbors[i] = agent})
CountOccupied(neighbors) == Cardinality({i \in DOMAIN neighbors : neighbors[i] > 0})

-----------------------------------------------------------------------------
(* The narrative collaborator *)

\* what openai.ChatCompletion.create can do: answer, or fail with some detail (the
\* call raises, or its response holds no choice and reading it raises)
NoLLM == [kind |-> "unused", body |-> ""]

LLMOutcomes ==
    { [kind |-> "text",  body |-> "  I like it here. "],
      [kind |-> "raise", body |-> "Request timed out"] }

\* str.strip() of a string whose only whitespace is blanks
RECURSIVE Strip(_)
Strip(str) ==
    IF Len(str) > 0 /\ SubSeq(str, 1, 1) = " " THEN Strip(SubSeq(str, 2, Len(str)))
    ELSE IF Len(str) > 0 /\ SubSeq(str, Len(str), Len(str)) = " "
      THEN Strip(SubSeq(str, 1, Len(str) - 1))
    ELSE str

\* a variant that tries a second time when the first call fails
NarrativeCallRetry(llm) ==
    IF llm.kind = "text"
      THEN [text |-> Strip(llm.body), calls |-> 1]
      ELSE [text |-> "(LLM call failed) " \o llm.body, calls |-> 2]

\* the try/except around the call: the text used in the report, and the number of
\* calls made
NarrativeCall(llm) ==
    IF llm.kind = "text"
      THEN [text |-> Strip(llm.body), calls |-> 1]
      ELSE [text |-> "(LLM call failed) " \o llm.body, calls |-> 1]

-----------------------------------------------------------------------------
(* get_agent_perspective *)

NoPrompt == [color |-> "", same_type |-> 0, total_neighbors |-> 0,
             threshold |-> PyFloat(0, 1), verdict |-> "", personality |-> ""]

NoResult ==
    [kind |-> "none", color |-> "", neighbors |-> <<>>,
     same_type |-> 0, total_neighbors |-> 0,
     personality |-> "", threshold |-> PyFloat(0, 1),
     fraction_same |-> PyFloat(0, 1), fraction_2f |-> 0, unhappy |-> FALSE,
     prompt |-> NoPrompt, text |-> "", neighborCalls |-> 0, llmCalls |-> 0]

\* a variant whose default threshold is 0 instead of THRESHOLD
LookupProfileZeroDefault(store, x, y) ==
    IF <<x, y>> \in DOMAIN store
      THEN store[<<x, y>>]
      ELSE [personality |-> "no particular personality", threshold |-> PyFloat(0, 1)]

\* AGENT_PROFILES.get((x, y), {}) and the two .get on the profile
LookupProfile(store, x, y) ==
    IF <<x, y>> \in DOMAIN store
      THEN store[<<x, y>>]
      ELSE [personality |-> "no particular personality", threshold |-> THRESHOLD]

\* a variant that stores the default it hands out (dict.setdefault)
StoreAfterLookupInserting(store, x, y) ==
    [c \in (DOMAIN store) \cup {<<x, y>>} |->
        IF c \in DOMAIN store THEN store[c] ELSE LookupProfile(store, x, y)]

\* the store after a lookup: dict.get leaves it as it is
StoreAfterLookup(store, x, y) == store

FractionSame(same_type, total_neighbors) ==
    IF total_neighbors # 0 THEN PyFloat(same_type, total_neighbors) ELSE PyFloat(0, 1)

\* a variant that counts the boundary as unhappy
UnhappyAtBoundary(fraction_same, threshold, total_neighbors) ==
    FloatLessEq(fraction_same, threshold) /\ total_neighbors > 0

Unhappy(fraction_same, threshold, total_neighbors) ==
    FloatLess(fraction_same, threshold) /\ total_neighbors > 0

\* the part of get_agent_perspective after the empty-cell return, for the agent
\* value read at (x, y)
Report(g, store, x, y, agent, llm) ==
    LET color           == IF agent = 1 THEN "Red" ELSE "Blue"
        neighbors       == get_neighbors(g, x, y)
        same_type       == CountEqual(neighbors, agent)
        total_neighbors == CountOccupied(neighbors)
        profile         == LookupProfile(store, x, y)
        fraction_same   == FractionSame(same_type, total_neighbors)
        unhappy         == Unhappy(fraction_same, profile.threshold, total_neighbors)
        narrative       == NarrativeCall(llm)
    IN  [kind |-> "report", color |-> color,
         neighbors |-> NeighborCoords(g.size, x, y),
         same_type |-> same_type, total_neighbors |-> total_neighbors,
         personality |-> profile.personality, threshold |-> profile.threshold,
         fraction_same |-> fraction_same, fraction_2f |-> Format2f(fraction_same),
         unhappy |-> unhappy,
         prompt |-> [color |-> color, same_type |-> same_type,
                     total_neighbors |-> total_neighbors,
                     threshold |-> profile.threshold,
                     verdict |-> IF unhappy THEN "unhappy" ELSE "happy",
                     personality |-> profile.personality],
         text |-> narrative.text, neighborCalls |-> 1, llmCalls |-> narrative.calls]

\* a variant without the empty-cell return
PerspectiveNoEmptyReturn(g, store, x, y, llm) ==
    IF NpIndex(x, g.size) < 0 \/ NpIndex(y, g.size) < 0
      THEN [NoResult EXCEPT !.kind = "IndexError"]
      ELSE Report(g, store, x, y,
                  g.cells[<<NpIndex(x, g.size), NpIndex(y, g.size)>>], llm)

\* get_agent_perspective(grid, x, y), with the collaborator's outcome llm
Perspective(g, store, x, y, llm) ==
    IF NpIndex(x, g.size) < 0 \/ NpIndex(y, g.size) < 0
      THEN \* grid[x, y] raises IndexError
           [NoResult EXCEPT !.kind = "IndexError"]
      ELSE LET agent == g.cells[<<NpIndex(x, g.size), NpIndex(y, g.size)>>]
           IN  IF agent = 0
                 THEN [NoResult EXCEPT !.kind = "empty"]
                 ELSE Report(g, store, x, y, agent, llm)

\* the outcomes of the collaborator a call can meet: none when the call ends
\* before it reaches the collaborator
LLMChoices(g, x, y) ==
    IF NpIndex(x, g.size) < 0 \/ NpIndex(y, g.size) < 0 THEN {NoLLM}
    ELSE IF g.cells[<<NpIndex(x, g.size), NpIndex(y, g.size)>>] = 0 THEN {NoLLM}
    ELSE LLMOutcomes

-----------------------------------------------------------------------------
(* on_click *)

\* a click's xdata or ydata: None outside the axes, else a float, here a multiple
\* of one half
NoneData == [none |-> TRUE, halves |-> 0]
ClickData(size) ==
    {NoneData} \cup {[none |-> FALSE, halves |-> h] : h \in -2 .. 2 * size}

\* int(round(v)) for v = halves / 2: Python rounds a half to the even neighbour
PyRound(halves) == RoundHalfEven(halves, 2)

\* a variant that lets the index one past the end through
ClickInGridInclusive(row, col, size) ==
    0 <= row /\ row <= size /\ 0 <= col /\ col <= size

ClickInGrid(row, col, size) ==
    0 <= row /\ row < size /\ 0 <= col /\ col < size

-----------------------------------------------------------------------------
(* The operations *)

NoCall == [op |-> "none", x |-> 0, y |-> 0, llm |-> NoLLM, res |-> NoResult]

EmptyRatios == {-1, 1, 9, 11}

Init ==
    /\ GRID_SIZE \in -1 .. MaxSize
    /\ EMPTY_RATIO \in EmptyRatios
    /\ DYNAMIC_THRESHOLDS \in BOOLEAN
    /\ \E seed \in 0 .. NumSeeds - 1 :
          /\ np_rng = (seed * 7) % UniformRes
          /\ py_rng = seed % Len(PERSONALITY_OPTIONS)
    /\ grid = NoGrid
    /\ AGENT_PROFILES = <<>>
    /\ pc = "start"
    /\ nRuns = 1
    /\ last = NoCall

\* main(), first step: grid = initialize_grid(GRID_SIZE, EMPTY_RATIO)
initialize_grid ==
    /\ pc = "start"
    /\ LET r == InitializeGrid(GRID_SIZE, EMPTY_RATIO, np_rng)
       IN  /\ grid' = r.grid
           /\ np_rng' = r.rng
           /\ pc' = IF r.kind = "grid" THEN "grid" ELSE "crashed"
           /\ last' = [NoCall EXCEPT !.op = "initialize_grid",
                                     !.x = GRID_SIZE, !.y = EMPTY_RATIO,
                                     !.res = [NoResult EXCEPT !.kind = r.kind]]
    /\ UNCHANGED <<GRID_SIZE, EMPTY_RATIO, DYNAMIC_THRESHOLDS, AGENT_PROFILES,
                   py_rng, nRuns>>

\* main(), second step: assign_personalities_and_thresholds(grid)
assign_personalities_and_thresholds ==
    /\ pc = "grid"
    /\ AGENT_PROFILES' = AssignProfiles(grid, AGENT_PROFILES, DYNAMIC_THRESHOLDS, py_rng)
    /\ py_rng' = (py_rng + Cardinality(Occupied(grid))) % Len(PERSONALITY_OPTIONS)
    /\ pc' = "assigned"
    /\ last' = [NoCall EXCEPT !.op = "assign_personalities_and_thresholds",
                              !.res = [NoResult EXCEPT !.kind = "assigned"]]
    /\ UNCHANGED <<GRID_SIZE, EMPTY_RATIO, DYNAMIC_THRESHOLDS, grid, np_rng, nRuns>>

\* main(), third step: show_grid(grid) connects on_click and blocks in plt.show()
show_grid ==
    /\ pc = "assigned"
    /\ pc' = "showing"
    /\ last' = [NoCall EXCEPT !.op = "show_grid",
                              !.res = [NoResult EXCEPT !.kind = "shown"]]
    /\ UNCHANGED <<GRID_SIZE, EMPTY_RATIO, DYNAMIC_THRESHOLDS, grid, AGENT_PROFILES,
                   np_rng, py_rng, nRuns>>

\* a click while the figure is shown
on_click ==
    /\ pc = "showing"
    /\ \E xdata \in ClickData(grid.size), ydata \in ClickData(grid.size) :
          IF xdata.none \/ ydata.none
            THEN /\ last' = [NoCall EXCEPT !.op = "on_click",
                                           !.res = [NoResult EXCEPT !.kind = "ignored"]]
                 /\ AGENT_PROFILES' = AGENT_PROFILES
            ELSE LET col == PyRound(xdata.halves)
                     row == PyRound(ydata.halves)
                 IN  IF ClickInGrid(row, col, grid.size)
                       THEN \E llm \in LLMChoices(grid, row, col) :
                              /\ last' = [op |-> "on_click", x |-> row, y |-> col,
                                          llm |-> llm,
                                          res |-> Perspective(grid, AGENT_PROFILES,
                                                              row, col, llm)]
                              /\ AGENT_PROFILES' =
                                    IF last'.res.kind = "report"
                                      THEN StoreAfterLookup(AGENT_PROFILES, row, col)
                                      ELSE AGENT_PROFILES
                       ELSE /\ last' = [NoCall EXCEPT !.op = "on_click",
                                           !.x = row, !.y = col,
                                           !.res = [NoResult EXCEPT !.kind = "outside"]]
                            /\ AGENT_PROFILES' = AGENT_PROFILES
    /\ UNCHANGED <<GRID_SIZE, EMPTY_RATIO, DYNAMIC_THRESHOLDS, grid,
                   np_rng, py_rng, pc, nRuns>>

\* the figure is closed: plt.show() and main() return; main() may be run again
main_return ==
    /\ pc = "showing"
    /\ nRuns < MaxRuns
    /\ nRuns' = nRuns + 1
    /\ pc' = "start"
    /\ grid' = NoGrid
    /\ last' = [NoCall EXCEPT !.op = "main_return"]
    /\ UNCHANGED <<GRID_SIZE, EMPTY_RATIO, DYNAMIC_THRESHOLDS, AGENT_PROFILES,
                   np_rng, py_rng>>

\* the indices a direct caller passes: every index of the axis and the one past its
\* end, and below zero the two ends of the range numpy counts from the end, and
\* the one below it
DirectIndices(size) == (0 .. size) \cup {-1, -size, -(size + 1)}

\* get_agent_perspective(grid, x, y) called by another caller than on_click, on
\* the grid at hand
get_agent_perspective ==
    /\ pc \in {"grid", "assigned"}
    /\ \E x \in DirectIndices(grid.size), y \in DirectIndices(grid.size) :
          \E llm \in LLMChoices(grid, x, y) :
             /\ last' = [op |-> "get_agent_perspective", x |-> x, y |-> y,
                         llm |-> llm,
                         res |-> Perspective(grid, AGENT_PROFILES, x, y, llm)]
             /\ AGENT_PROFILES' =
                   IF last'.res.kind = "report"
                     THEN StoreAfterLookup(AGENT_PROFILES, x, y)
                     ELSE AGENT_PROFILES
    /\ UNCHANGED <<GRID_SIZE, EMPTY_RATIO, DYNAMIC_THRESHOLDS, grid,
                   np_rng, py_rng, pc, nRuns>>

Next ==
    \/ initialize_grid
    \/ assign_personalities_and_thresholds
    \/ show_grid
    \/ on_click
    \/ main_return
    \/ get_agent_perspective

Spec == Init /\ [][Next]_vars

-----------------------------------------------------------------------------
(* Properties *)

QueryOps == {"on_click", "get_agent_perspective"}

\* the last call was a query that produced a report
Reported == last.op \in QueryOps /\ last.res.kind = "report"

InGrid(i) == 0 <= i /\ i < grid.size

\* the grid cell numpy reads at index (x, y)
CellRead(x, y) == grid.cells[<<NpIndex(x, grid.size), NpIndex(y, grid.size)>>]

\* the decimal literals of the thresholds, as <<numerator, denominator>>
ThresholdLiterals == {<<1, 10>>, <<5, 10>>, <<2, 10>>, <<4, 10>>, <<25, 100>>, <<3, 10>>}

\* the literal a threshold was written as
LiteralOf(f) == CHOOSE d \in ThresholdLiterals : PyFloat(d[1], d[2]) = f

\* C1: a report's verdict is unhappy exactly when the cell has an occupied neighbour
\* and the exact ratio same/total lies strictly below the threshold as written
\* (so no occupied neighbour gives happy, and a ratio equal to the threshold gives
\* happy, as 3 of 10 at threshold 0.3 does).
C1_VerdictIsStrictlyBelowThreshold ==
    /\ Reported =>
          LET d == LiteralOf(last.res.threshold)
          IN  last.res.unhappy <=>
                 /\ last.res.total_neighbors > 0
                 /\ last.res.same_type * d[2] < d[1] * last.res.total_neighbors
    /\ ~Unhappy(FractionSame(3, 10), THRESHOLD, 10)
    /\ ~Unhappy(FractionSame(0, 0), THRESHOLD, 0)

\* a report whose ratio equals its threshold exactly, with occupied neighbours
C1_Witness ==
    /\ Reported
    /\ last.res.total_neighbors > 0
    /\ LET d == LiteralOf(last.res.threshold)
       IN  last.res.same_type * d[2] = d[1] * last.res.total_neighbors
    /\ ~last.res.unhappy

\* C2 as stated: no query with x or y outside [0, N) is answered with a report or
\* an empty-cell message.
C2_OutOfRangeNeverAnswered ==
    (last.op \in QueryOps /\ last.res.kind \in {"report", "empty"})
        => (InGrid(last.x) /\ InGrid(last.y))

\* C2 as amended: on_click answers exactly the clicks whose row and column lie in
\* [0, N) and rejects the others as outside the grid; get_agent_perspective itself
\* fails (IndexError) exactly when x or y lies outside [-N, N), and for an index
\* in [-N, 0) it answers for the cell numpy counts from the end.
C2_ClickGuardedDirectWraps ==
    /\ (last.op = "on_click" /\ last.res.kind # "ignored") =>
          /\ last.res.kind \in {"report", "empty", "outside"}
          /\ last.res.kind = "outside" <=> ~(InGrid(last.x) /\ InGrid(last.y))
    /\ last.op = "get_agent_perspective" =>
          /\ last.res.kind \in {"report", "empty", "IndexError"}
          /\ last.res.kind = "IndexError" <=>
                ~(/\ -grid.size <= last.x /\ last.x < grid.size
                  /\ -grid.size <= last.y /\ last.y < grid.size)
          /\ last.res.kind = "empty" => CellRead(last.x, last.y) = 0
          /\ last.res.kind = "report" =>
                /\ CellRead(last.x, last.y) # 0
                /\ last.res.color = (IF CellRead(last.x, last.y) = 1 THEN "Red" ELSE "Blue")

\* a direct call with a negative index that was answered with a report
C2_Witness ==
    /\ last.op = "get_agent_perspective"
    /\ last.x < 0
    /\ last.res.kind = "report"

\* C3: a query that reads an Empty cell returns the empty-cell message, and neither
\* get_neighbors nor the collaborator is called in it.
C3_EmptyCellCallsNothing ==
    /\ (/\ last.op \in QueryOps
        /\ last.res.kind \in {"report", "empty"}
        /\ CellRead(last.x, last.y) = 0) =>
          /\ last.res.kind = "empty"
          /\ last.res.neighborCalls = 0
          /\ last.res.llmCalls = 0
          /\ last.llm = NoLLM
    /\ (last.op \in QueryOps /\ last.res.kind = "empty") =>
          CellRead(last.x, last.y) = 0

C3_Witness ==
    /\ last.op = "on_click"
    /\ last.res.kind = "empty"
    /\ Occupied(grid) # {}

\* C4: a report comes from exactly one call of the collaborator; when the call
\* fails the report still carries the type, the personality, the threshold, the
\* ratio and the verdict, and its narrative is "(LLM call failed) " followed by the
\* failure's detail.
C4_OneCallFailureIsPlaceholder ==
    /\ Reported =>
          /\ last.res.llmCalls = 1
          /\ last.llm \in LLMOutcomes
          /\ last.res.color = (IF CellRead(last.x, last.y) = 1 THEN "Red" ELSE "Blue")
          /\ last.res.personality = LookupProfile(AGENT_PROFILES, last.x, last.y).personality
          /\ last.res.threshold = LookupProfile(AGENT_PROFILES, last.x, last.y).threshold
          /\ last.res.fraction_same =
                FractionSame(last.res.same_type, last.res.total_neighbors)
          /\ last.llm.kind # "text" =>
                last.res.text = "(LLM call failed) " \o last.llm.body
          /\ last.llm.kind = "text" => last.res.text = "I like it here."
    /\ (last.op \in QueryOps /\ last.llm # NoLLM) => last.res.kind = "report"

C4_Witness ==
    /\ Reported
    /\ last.llm.kind = "raise"
    /\ last.res.unhappy

\* C5 as stated: initialize_grid returns a grid exactly when size > 0 and
\* 0 <= empty_ratio <= 1.
C5_InvalidConfigurationFails ==
    last.op = "initialize_grid" =>
        (last.res.kind = "grid" <=>
            (GRID_SIZE > 0 /\ 0 <= EMPTY_RATIO /\ EMPTY_RATIO <= 10))

\* C6 as stated: after every assignment the store's keys are exactly the occupied
\* cells of the grid assigned.
C6_StoreIsExactlyOccupied ==
    last.op = "assign_personalities_and_thresholds" =>
        DOMAIN AGENT_PROFILES = Occupied(grid)

\* the keys of PERSONALITY_THRESHOLD_MAP that are fragments of a personality
MatchingKeys(personality) ==
    {i \in DOMAIN PERSONALITY_THRESHOLD_MAP :
        IsSubstring(PERSONALITY_THRESHOLD_MAP[i].key, personality)}

FirstMatchOrDefault(personality) ==
    IF MatchingKeys(personality) = {} THEN THRESHOLD
    ELSE PERSONALITY_THRESHOLD_MAP[
            CHOOSE i \in MatchingKeys(personality) :
                \A j \in MatchingKeys(personality) : i <= j].value

\* C7: every profile an assignment writes has the threshold of the first map entry
\* whose key is a fragment of its personality (THRESHOLD if there is none) when
\* DYNAMIC_THRESHOLDS is set, and THRESHOLD when it is not; equal personalities
\* get equal thresholds.
C7_ThresholdIsFirstMatch ==
    last.op = "assign_personalities_and_thresholds" =>
        /\ \A c \in Occupied(grid) :
              /\ AGENT_PROFILES[c].personality \in
                    {PERSONALITY_OPTIONS[i] : i \in DOMAIN PERSONALITY_OPTIONS}
              /\ AGENT_PROFILES[c].threshold =
                    IF DYNAMIC_THRESHOLDS
                      THEN FirstMatchOrDefault(AGENT_PROFILES[c].personality)
                      ELSE THRESHOLD
        /\ \A c, d \in Occupied(grid) :
              AGENT_PROFILES[c].personality = AGENT_PROFILES[d].personality
                  => AGENT_PROFILES[c].threshold = AGENT_PROFILES[d].threshold

\* an assignment with dynamic thresholds that wrote a threshold of 0.25
C7_Witness ==
    /\ last.op = "assign_personalities_and_thresholds"
    /\ DYNAMIC_THRESHOLDS
    /\ \E c \in Occupied(grid) :
          /\ AGENT_PROFILES[c].personality = PERSONALITY_OPTIONS[5]
          /\ AGENT_PROFILES[c].threshold = PyFloat(25, 100)

\* the cells around (x, y) that lie in the grid
MooreCells(x, y) ==
    {c \in Coords(grid.size) :
        /\ c # <<x, y>>
        /\ c[1] - x \in {-1, 0, 1}
        /\ c[2] - y \in {-1, 0, 1}}

OnBorder(i) == i = 0 \/ i = grid.size - 1

\* C8: for a cell in the grid, the neighbours read are exactly the cells around it
\* that lie in the grid, each once: 3 for a corner, 5 for another border cell,
\* 8 inside (grids of side 2 and more); the same-type count is the number of them
\* equal to the occupant, the total the number of them that are not Empty.
C8_NeighboursAreMooreCellsInGrid ==
    (Reported /\ InGrid(last.x) /\ InGrid(last.y)) =>
        LET cells == last.res.neighbors
            around == MooreCells(last.x, last.y)
            agent == grid.cells[<<last.x, last.y>>]
        IN  /\ {cells[i] : i \in DOMAIN cells} = around
            /\ Len(cells) = Cardinality(around)
            /\ last.res.neighborCalls = 1
            /\ grid.size >= 2 =>
                  Len(cells) = IF OnBorder(last.x) /\ OnBorder(last.y) THEN 3
                               ELSE IF OnBorder(last.x) \/ OnBorder(last.y) THEN 5
                               ELSE 8
            /\ last.res.same_type = Cardinality({c \in around : grid.cells[c] = agent})
            /\ last.res.total_neighbors = Cardinality({c \in around : grid.cells[c] # 0})

\* a report on an inner cell, with neighbours of both types and an empty one
C8_Witness ==
    /\ Reported
    /\ ~OnBorder(last.x) /\ ~OnBorder(last.y)
    /\ Len(last.res.neighbors) = 8
    /\ last.res.same_type > 0
    /\ last.res.same_type < last.res.total_neighbors
    /\ last.res.total_neighbors < 8

\* C9: a query step (a click or a direct call, whatever its outcome) changes
\* neither the grid nor the profile store.
C9_QueriesChangeNothing ==
    [][last'.op \in QueryOps => (grid' = grid /\ AGENT_PROFILES' = AGENT_PROFILES)]_vars

\* a click on an occupied cell whose collaborator failed, after the assignment
C9_Witness ==
    /\ last.op = "on_click"
    /\ last.res.kind = "report"
    /\ last.llm.kind = "raise"
    /\ AGENT_PROFILES # <<>>

\* C10: a report on a cell without a profile uses "no particular personality" and
\* THRESHOLD, its verdict is the one for THRESHOLD, and the store still has no
\* entry for the cell; before any assignment the store stays empty.
C10_MissingProfileUsesDefaults ==
    /\ (Reported /\ <<last.x, last.y>> \notin DOMAIN AGENT_PROFILES) =>
          /\ last.res.personality = "no particular personality"
          /\ last.res.threshold = PyFloat(3, 10)
          /\ last.res.unhappy <=>
                /\ last.res.total_neighbors > 0
                /\ 10 * last.res.same_type < 3 * last.res.total_neighbors
    /\ (Reported /\ nRuns = 1 /\ pc = "grid") => AGENT_PROFILES = <<>>
    /\ (Reported /\ (last.x < 0 \/ last.y < 0)) =>
          <<last.x, last.y>> \notin DOMAIN AGENT_PROFILES

\* a report made before any assignment has run, unhappy at the default threshold
C10_Witness ==
    /\ Reported
    /\ nRuns = 1 /\ pc = "grid"
    /\ last.res.unhappy

====
